---- MODULE Spec2Model ----
\* The v3_0 document model of openapiv3 and its conversions from v3_1:
\* ReferenceOr (reference.rs), Components (components.rs), Callback
\* (callback.rs), SecurityScheme / OAuth2Flows / OAuth2Flow
\* (security_scheme.rs), Server (server.rs) and MediaType (media_type.rs).
\*
\* Every function here is pure, so a behaviour is one call: Init chooses the
\* argument, one action per entry point applies it and records the outcome.
\* A panic!() is an outcome of its own, Panic(msg), and unwinds through every
\* enclosing conversion.
EXTENDS Integers, Sequences, FiniteSets, TLC

VARIABLES input, call, result

vars == <<input, call, result>>

-----------------------------------------------------------------------------
\* Bounds and sample values

\* The largest number of entries a Components registry holds, all kinds together.
MaxEntries == 2

\* Map keys, reference strings and free-text strings the inputs are built from.
Keys == {"k1", "k2"}
Refs == {"#/components/x/A", "#/components/x/B"}
Strs == {"s1", "s2"}

\* Option<T>
None == <<>>
Some(x) == <<x>>
Options(S) == {None} \cup {Some(x) : x \in S}

\* The outcome of a call: a returned value, or the panic that unwound it.
Ok(v) == <<"ok", v>>
Panic(msg) == <<"panic", msg>>
IsOk(r) == r[1] = "ok"
IsPanic(r) == r[1] = "panic"
Pending == <<"pending">>

\* IndexMap<String, V>: the entries <<key, value>> in insertion order, keys unique.
KeysOf(m) == [i \in 1..Len(m) |-> m[i][1]]
UniqueKeys(m) == \A i, j \in 1..Len(m) : m[i][1] = m[j][1] => i = j
IndexMaps(K, V, n) ==
    {m \in UNION {[1..l -> K \X V] : l \in 0..n} : UniqueKeys(m)}

\* IndexMap::insert: a new key is appended, a known key keeps its place and
\* takes the new value.
IndexMapInsert(m, kv) ==
    IF \E i \in 1..Len(m) : m[i][1] = kv[1]
    THEN [i \in 1..Len(m) |-> IF m[i][1] = kv[1] THEN kv ELSE m[i]]
    ELSE Append(m, kv)

RECURSIVE Collect_Reversed(_)
Collect_Reversed(pairs) ==
    IF pairs = <<>> THEN <<>>
    ELSE IndexMapInsert(Collect_Reversed(SubSeq(pairs, 2, Len(pairs))), pairs[1])

\* Iterator::collect::<IndexMap<_, _>>(): insert the pairs in iteration order.
RECURSIVE Collect(_)
Collect(pairs) ==
    IF pairs = <<>> THEN <<>>
    ELSE IndexMapInsert(Collect(SubSeq(pairs, 1, Len(pairs) - 1)), pairs[Len(pairs)])

\* extensions: IndexMap<String, serde_json::Value>
ExtensionSamples == {<<>>, <<<<"x-internal", "true">>>>}

-----------------------------------------------------------------------------
\* Object kinds whose bodies live outside these files (Response, Parameter,
\* Example, RequestBody, Header, Schema, Link, PathItem, Encoding,
\* ServerVariable): a value is its type, its revision and an identity.
Opaque(type, rev, id) == [type |-> type, rev |-> rev, id |-> id]
OpaqueValues(type, rev) == {Opaque(type, rev, id) : id \in {1, 2}}

\* Their From<v3_1::X> for X: the same object in the older revision.
IntoOpaque(x) == Ok(Opaque(x.type, "v3_0", x.id))

-----------------------------------------------------------------------------
\* reference.rs: ReferenceOr<T>

Reference(r) == [tag |-> "Reference", reference |-> r]
Item(x) == [tag |-> "Item", item |-> x]
DereferencedReference(r, x) == [tag |-> "DereferencedReference", reference |-> r, item |-> x]

ReferenceOr(R, T) ==
    {Reference(r) : r \in R} \cup {Item(x) : x \in T}
        \cup {DereferencedReference(r, x) : r \in R, x \in T}

ref_(r) == Reference(r)

into_item_DerefIsNone(self) ==
    IF self.tag = "Item" THEN Some(self.item) ELSE None

into_item(self) ==
    CASE self.tag = "Reference" -> None
      [] self.tag = "Item" -> Some(self.item)
      [] self.tag = "DereferencedReference" -> Some(self.item)

as_item(self) ==
    CASE self.tag = "Reference" -> None
      [] self.tag = "Item" -> Some(self.item)
      [] self.tag = "DereferencedReference" -> Some(self.item)

-----------------------------------------------------------------------------
\* security_scheme.rs

\* From<v3_1::ApiKeyLocation> for APIKeyLocation
V31ApiKeyLocation(v) == [enum |-> "v3_1::ApiKeyLocation", variant |-> v]
APIKeyLocation(v) == [enum |-> "APIKeyLocation", variant |-> v]

APIKeyLocation_from_CookieAsHeader(s) ==
    CASE s.variant = "Query" -> APIKeyLocation("Query")
      [] s.variant = "Header" -> APIKeyLocation("Header")
      [] s.variant = "Cookie" -> APIKeyLocation("Header")

APIKeyLocation_from(s) ==
    CASE s.variant = "Query" -> APIKeyLocation("Query")
      [] s.variant = "Header" -> APIKeyLocation("Header")
      [] s.variant = "Cookie" -> APIKeyLocation("Cookie")

\* From<v3_1::OAuth2Flow> for OAuth2Flow
OAuth2Flow_from_DropsRefresh(s) ==
    CASE s.variant = "Implicit" ->
            [rev |-> "v3_0", variant |-> "Implicit",
             authorization_url |-> s.authorization_url,
             refresh_url |-> None,
             scopes |-> s.scopes]
      [] s.variant = "Password" ->
            [rev |-> "v3_0", variant |-> "Password",
             refresh_url |-> None,
             token_url |-> s.token_url,
             scopes |-> s.scopes]
      [] s.variant = "ClientCredentials" ->
            [rev |-> "v3_0", variant |-> "ClientCredentials",
             refresh_url |-> None,
             token_url |-> s.token_url,
             scopes |-> s.scopes]
      [] s.variant = "AuthorizationCode" ->
            [rev |-> "v3_0", variant |-> "AuthorizationCode",
             authorization_url |-> s.authorization_url,
             token_url |-> s.token_url,
             refresh_url |-> None,
             scopes |-> s.scopes]

OAuth2Flow_from(s) ==
    CASE s.variant = "Implicit" ->
            [rev |-> "v3_0", variant |-> "Implicit",
             authorization_url |-> s.authorization_url,
             refresh_url |-> s.refresh_url,
             scopes |-> s.scopes]
      [] s.variant = "Password" ->
            [rev |-> "v3_0", variant |-> "Password",
             refresh_url |-> s.refresh_url,
             token_url |-> s.token_url,
             scopes |-> s.scopes]
      [] s.variant = "ClientCredentials" ->
            [rev |-> "v3_0", variant |-> "ClientCredentials",
             refresh_url |-> s.refresh_url,
             token_url |-> s.token_url,
             scopes |-> s.scopes]
      [] s.variant = "AuthorizationCode" ->
            [rev |-> "v3_0", variant |-> "AuthorizationCode",
             authorization_url |-> s.authorization_url,
             token_url |-> s.token_url,
             refresh_url |-> s.refresh_url,
             scopes |-> s.scopes]

\* Option::map(Into::into) on a flow slot
MapFlow(slot) == IF slot = None THEN None ELSE Some(OAuth2Flow_from(slot[1]))

\* From<v3_1::OAuth2Flows> for OAuth2Flows
OAuth2Flows_from(s) ==
    [rev |-> "v3_0",
     implicit |-> MapFlow(s.implicit),
     password |-> MapFlow(s.password),
     client_credentials |-> MapFlow(s.client_credentials),
     authorization_code |-> MapFlow(s.authorization_code)]

MutualTlsMessage == "MutualTLS is not supported in Open API 3.0.x"

SecurityScheme_from_MutualTlsAsHttp(s) ==
    CASE s.variant = "ApiKey" ->
            Ok([type |-> "SecurityScheme", rev |-> "v3_0", variant |-> "APIKey",
                location |-> APIKeyLocation_from(s.location),
                name |-> s.name,
                description |-> s.description,
                extensions |-> s.extensions])
      [] s.variant = "Http" ->
            Ok([type |-> "SecurityScheme", rev |-> "v3_0", variant |-> "HTTP",
                scheme |-> s.scheme,
                bearer_format |-> s.bearer_format,
                description |-> s.description,
                extensions |-> s.extensions])
      [] s.variant = "OAuth2" ->
            Ok([type |-> "SecurityScheme", rev |-> "v3_0", variant |-> "OAuth2",
                flows |-> OAuth2Flows_from(s.flows),
                description |-> s.description,
                extensions |-> s.extensions])
      [] s.variant = "OpenIdConnect" ->
            Ok([type |-> "SecurityScheme", rev |-> "v3_0", variant |-> "OpenIDConnect",
                open_id_connect_url |-> s.open_id_connect_url,
                description |-> s.description,
                extensions |-> s.extensions])
      [] s.variant = "MutualTls" ->
            Ok([type |-> "SecurityScheme", rev |-> "v3_0", variant |-> "HTTP",
                scheme |-> "mutualTLS",
                bearer_format |-> None,
                description |-> s.description,
                extensions |-> s.extensions])

\* From<v3_1::SecurityScheme> for SecurityScheme
SecurityScheme_from(s) ==
    CASE s.variant = "ApiKey" ->
            Ok([type |-> "SecurityScheme", rev |-> "v3_0", variant |-> "APIKey",
                location |-> APIKeyLocation_from(s.location),
                name |-> s.name,
                description |-> s.description,
                extensions |-> s.extensions])
      [] s.variant = "Http" ->
            Ok([type |-> "SecurityScheme", rev |-> "v3_0", variant |-> "HTTP",
                scheme |-> s.scheme,
                bearer_format |-> s.bearer_format,
                description |-> s.description,
                extensions |-> s.extensions])
      [] s.variant = "OAuth2" ->
            Ok([type |-> "SecurityScheme", rev |-> "v3_0", variant |-> "OAuth2",
                flows |-> OAuth2Flows_from(s.flows),
                description |-> s.description,
                extensions |-> s.extensions])
      [] s.variant = "OpenIdConnect" ->
            Ok([type |-> "SecurityScheme", rev |-> "v3_0", variant |-> "OpenIDConnect",
                open_id_connect_url |-> s.open_id_connect_url,
                description |-> s.description,
                extensions |-> s.extensions])
      [] s.variant = "MutualTls" -> Panic(MutualTlsMessage)

-----------------------------------------------------------------------------
\* reference.rs: ReferenceOr::from_v3_1

\* X: Into<T>, the conversion of the contained value, chosen by its type.
Into(x) ==
    IF x.type = "SecurityScheme" THEN SecurityScheme_from(x) ELSE IntoOpaque(x)

\* v3_1::ReferenceOr<X>; rest stands for the fields the patterns skip with `..`.
V31Reference(r, rest) == [tag |-> "Reference", reference |-> r, rest |-> rest]
V31Item(x) == [tag |-> "Item", item |-> x]
V31DereferencedReference(r, x, rest) ==
    [tag |-> "DereferencedReference", reference |-> r, item |-> x, rest |-> rest]

V31ReferenceOr(R, X, Rest) ==
    {V31Reference(r, rest) : r \in R, rest \in Rest}
        \cup {V31Item(x) : x \in X}
        \cup {V31DereferencedReference(r, x, rest) : r \in R, x \in X, rest \in Rest}

\* A panic inside item.into() unwinds before the cell is built.
WrapItem(converted) ==
    IF IsPanic(converted) THEN converted ELSE Ok(Item(converted[2]))

from_v3_1_KeepsDereferenced(r) ==
    CASE r.tag = "Reference" -> Ok(Reference(r.reference))
      [] r.tag = "Item" -> WrapItem(Into(r.item))
      [] r.tag = "DereferencedReference" ->
            LET converted == Into(r.item)
            IN  IF IsPanic(converted) THEN converted
                ELSE Ok(DereferencedReference(r.reference, converted[2]))

from_v3_1_DerefStaysReference(r) ==
    CASE r.tag = "Reference" -> Ok(Reference(r.reference))
      [] r.tag = "Item" -> WrapItem(Into(r.item))
      [] r.tag = "DereferencedReference" -> Ok(Reference(r.reference))

from_v3_1(r) ==
    CASE r.tag = "Reference" -> Ok(Reference(r.reference))
      [] r.tag = "Item" -> WrapItem(Into(r.item))
      [] r.tag = "DereferencedReference" -> WrapItem(Into(r.item))

-----------------------------------------------------------------------------
\* Struct fields and map entries are evaluated in source order; the first
\* panic unwinds the whole expression.
AnyPanic(outcomes) == \E i \in 1..Len(outcomes) : IsPanic(outcomes[i])
FirstPanic(outcomes) ==
    outcomes[CHOOSE i \in 1..Len(outcomes) :
                /\ IsPanic(outcomes[i])
                /\ \A j \in 1..(i - 1) : ~IsPanic(outcomes[j])]

\* m.into_iter().map(|(k, v)| (k, f(v))).collect(), with outcomes[i] the
\* outcome of f on the i-th value.
MapCollect(m, outcomes) ==
    IF AnyPanic(outcomes) THEN FirstPanic(outcomes)
    ELSE Ok(Collect([i \in 1..Len(m) |-> <<m[i][1], outcomes[i][2]>>]))

-----------------------------------------------------------------------------
\* callback.rs

PathItemRefMessage == "PathItems cannot be $ref"

PathItemArm_DerefPanics(v) ==
    CASE v.tag = "Reference" -> Panic(PathItemRefMessage)
      [] v.tag = "Item" -> Into(v.item)
      [] v.tag = "DereferencedReference" -> Panic(PathItemRefMessage)

\* The match of callback_from_v3_1 on one entry's value.
PathItemArm(v) ==
    CASE v.tag = "Reference" -> Panic(PathItemRefMessage)
      [] v.tag = "Item" -> Into(v.item)
      [] v.tag = "DereferencedReference" -> Into(v.item)

callback_from_v3_1(a) ==
    MapCollect(a, [i \in 1..Len(a) |-> PathItemArm(a[i][2])])

-----------------------------------------------------------------------------
\* components.rs: From<v3_1::Components> for Components

\* schemas: every entry becomes an Item
SchemaArm(v) == WrapItem(Into(v))

CallbackArm_ReferencePanics(v) ==
    CASE v.tag = "Item" -> WrapItem(callback_from_v3_1(v.item))
      [] v.tag = "Reference" -> Panic(PathItemRefMessage)
      [] v.tag = "DereferencedReference" -> WrapItem(callback_from_v3_1(v.item))

\* The match on one entry of a.callbacks.
CallbackArm(v) ==
    CASE v.tag = "Item" -> WrapItem(callback_from_v3_1(v.item))
      [] v.tag = "Reference" -> Ok(Reference(v.reference))
      [] v.tag = "DereferencedReference" -> WrapItem(callback_from_v3_1(v.item))

Components_from(a) ==
    LET security_schemes ==
            MapCollect(a.security_schemes,
                [i \in 1..Len(a.security_schemes) |->
                    from_v3_1(a.security_schemes[i][2])])
        responses ==
            MapCollect(a.responses,
                [i \in 1..Len(a.responses) |-> from_v3_1(a.responses[i][2])])
        parameters ==
            MapCollect(a.parameters,
                [i \in 1..Len(a.parameters) |-> from_v3_1(a.parameters[i][2])])
        examples ==
            MapCollect(a.examples,
                [i \in 1..Len(a.examples) |-> from_v3_1(a.examples[i][2])])
        request_bodies ==
            MapCollect(a.request_bodies,
                [i \in 1..Len(a.request_bodies) |-> from_v3_1(a.request_bodies[i][2])])
        headers ==
            MapCollect(a.headers,
                [i \in 1..Len(a.headers) |-> from_v3_1(a.headers[i][2])])
        schemas ==
            MapCollect(a.schemas,
                [i \in 1..Len(a.schemas) |-> SchemaArm(a.schemas[i][2])])
        links ==
            MapCollect(a.links,
                [i \in 1..Len(a.links) |-> from_v3_1(a.links[i][2])])
        callbacks ==
            MapCollect(a.callbacks,
                [i \in 1..Len(a.callbacks) |-> CallbackArm(a.callbacks[i][2])])
        fields == <<security_schemes, responses, parameters, examples,
                    request_bodies, headers, schemas, links, callbacks>>
    IN  IF AnyPanic(fields) THEN FirstPanic(fields)
        ELSE Ok([rev |-> "v3_0",
                 security_schemes |-> security_schemes[2],
                 responses |-> responses[2],
                 parameters |-> parameters[2],
                 examples |-> examples[2],
                 request_bodies |-> request_bodies[2],
                 headers |-> headers[2],
                 schemas |-> schemas[2],
                 links |-> links[2],
                 callbacks |-> callbacks[2],
                 extensions |-> a.extensions])

-----------------------------------------------------------------------------
\* server.rs: From<v3_1::Server> for Server

Server_from_EmptyPresent(s) ==
    LET collected ==
            MapCollect(s.variables,
                [i \in 1..Len(s.variables) |-> Into(s.variables[i][2])])
    IN  IF IsPanic(collected) THEN collected
        ELSE Ok([rev |-> "v3_0",
                 url |-> s.url,
                 description |-> s.description,
                 variables |-> Some(collected[2]),
                 extensions |-> s.extensions])

Server_from(s) ==
    LET variables ==
            IF s.variables = <<>> THEN Ok(None)
            ELSE LET collected ==
                        MapCollect(s.variables,
                            [i \in 1..Len(s.variables) |-> Into(s.variables[i][2])])
                 IN  IF IsPanic(collected) THEN collected ELSE Ok(Some(collected[2]))
    IN  IF IsPanic(variables) THEN variables
        ELSE Ok([rev |-> "v3_0",
                 url |-> s.url,
                 description |-> s.description,
                 variables |-> variables[2],
                 extensions |-> s.extensions])

-----------------------------------------------------------------------------
\* media_type.rs: From<v3_1::MediaType> for MediaType

MediaType_from(m) ==
    LET schema ==
            IF m.schema = None THEN Ok(None)
            ELSE LET converted == WrapItem(Into(m.schema[1]))
                 IN  IF IsPanic(converted) THEN converted ELSE Ok(Some(converted[2]))
        examples ==
            MapCollect(m.examples,
                [i \in 1..Len(m.examples) |-> from_v3_1(m.examples[i][2])])
        encoding ==
            MapCollect(m.encoding,
                [i \in 1..Len(m.encoding) |-> Into(m.encoding[i][2])])
        fields == <<schema, examples, encoding>>
    IN  IF AnyPanic(fields) THEN FirstPanic(fields)
        ELSE Ok([rev |-> "v3_0",
                 schema |-> schema[2],
                 example |-> m.example,
                 examples |-> examples[2],
                 encoding |-> encoding[2],
                 extensions |-> m.extensions])

-----------------------------------------------------------------------------
\* reference.rs: #[derive(Serialize)] #[serde(untagged)] on ReferenceOr<T>
\* An external value is <<"string", s>>, <<"number", n>> or
\* <<"object", fields>> with fields the <<name, value>> pairs in order.
JString(s) == <<"string", s>>
JNumber(n) == <<"number", n>>
JObject(fields) == <<"object", fields>>

\* The external form of an object whose body lives outside these files.
SerializeOpaque(x) == JObject(<< <<"x-id", JNumber(x.id)>> >>)

\* An untagged enum serializes the active variant's content alone: a struct
\* variant as an object of its fields under their (renamed) names, a newtype
\* variant as its content.
RECURSIVE Serialize(_)
Serialize(self) ==
    LET SerializeT(x) ==
            IF "tag" \in DOMAIN x THEN Serialize(x) ELSE SerializeOpaque(x)
    IN  CASE self.tag = "Reference" ->
                JObject(<< <<"$ref", JString(self.reference)>> >>)
          [] self.tag = "Item" -> SerializeT(self.item)
          [] self.tag = "DereferencedReference" ->
                JObject(<< <<"reference", JString(self.reference)>>,
                           <<"item", SerializeT(self.item)>> >>)

-----------------------------------------------------------------------------
\* Inputs: the values of the newer revision a caller can hand to each entry
\* point, built from the sample strings above.

Urls == {"https://a.example/", "https://b.example/"}
ScopeSamples == {<<>>, <<<<"read", "read access">>>>}
Descriptions == Options({"d"})
RestSamples == {<<>>, <<"summary">>}

\* ReferenceOr<T> with T a plain object or itself a ReferenceOr.
CellItems ==
    OpaqueValues("Response", "v3_0")
        \cup ReferenceOr(Refs, OpaqueValues("Schema", "v3_0"))
CellInputs == ReferenceOr(Refs, CellItems)

\* v3_1::OAuth2Flow
V31Flows ==
    {[rev |-> "v3_1", variant |-> "Implicit",
      authorization_url |-> au, refresh_url |-> ru, scopes |-> sc] :
        au \in Urls, ru \in Options({"https://r.example/"}), sc \in ScopeSamples}
    \cup
    {[rev |-> "v3_1", variant |-> v,
      refresh_url |-> ru, token_url |-> tu, scopes |-> sc] :
        v \in {"Password", "ClientCredentials"},
        ru \in Options({"https://r.example/"}), tu \in Urls, sc \in ScopeSamples}
    \cup
    {[rev |-> "v3_1", variant |-> "AuthorizationCode",
      authorization_url |-> au, token_url |-> tu, refresh_url |-> ru, scopes |-> sc] :
        au \in Urls, tu \in Urls, ru \in Options({"https://r.example/"}),
        sc \in ScopeSamples}

\* One flow of each kind, for the flow sets with several slots occupied.
FlowPerKind ==
    {f \in V31Flows :
        /\ f.refresh_url # None
        /\ f.scopes # <<>>
        /\ "authorization_url" \in DOMAIN f => f.authorization_url = "https://a.example/"
        /\ "token_url" \in DOMAIN f => f.token_url = "https://b.example/"}

Slots == {"implicit", "password", "client_credentials", "authorization_code"}

EmptyFlows ==
    [rev |-> "v3_1", implicit |-> None, password |-> None,
     client_credentials |-> None, authorization_code |-> None]

\* v3_1::OAuth2Flows with at most one slot occupied, by any flow.
OneSlotFlows ==
    {EmptyFlows}
        \cup {[EmptyFlows EXCEPT ![slot] = Some(f)] : slot \in Slots, f \in V31Flows}

\* v3_1::OAuth2Flows: the above, and every occupancy pattern of the four slots.
FlowsInputs ==
    OneSlotFlows
        \cup {[rev |-> "v3_1", implicit |-> i, password |-> p,
               client_credentials |-> c, authorization_code |-> a] :
                i \in Options(FlowPerKind), p \in Options(FlowPerKind),
                c \in Options(FlowPerKind), a \in Options(FlowPerKind)}

\* v3_1::SecurityScheme
V31ApiKeys ==
    {[type |-> "SecurityScheme", rev |-> "v3_1", variant |-> "ApiKey",
      location |-> V31ApiKeyLocation(l), name |-> n, description |-> d,
      extensions |-> e] :
        l \in {"Query", "Header", "Cookie"}, n \in Strs, d \in Descriptions,
        e \in ExtensionSamples}
V31Https ==
    {[type |-> "SecurityScheme", rev |-> "v3_1", variant |-> "Http",
      scheme |-> sc, bearer_format |-> b, description |-> d, extensions |-> e] :
        sc \in {"basic", "bearer"}, b \in Options({"JWT"}), d \in Descriptions,
        e \in ExtensionSamples}
V31OAuth2s ==
    {[type |-> "SecurityScheme", rev |-> "v3_1", variant |-> "OAuth2",
      flows |-> f, description |-> d, extensions |-> e] :
        f \in OneSlotFlows, d \in Descriptions, e \in ExtensionSamples}
V31OpenIdConnects ==
    {[type |-> "SecurityScheme", rev |-> "v3_1", variant |-> "OpenIdConnect",
      open_id_connect_url |-> u, description |-> d, extensions |-> e] :
        u \in Urls, d \in Descriptions, e \in ExtensionSamples}
V31MutualTlss ==
    {[type |-> "SecurityScheme", rev |-> "v3_1", variant |-> "MutualTls",
      description |-> d, extensions |-> e] :
        d \in Descriptions, e \in ExtensionSamples}
SchemeInputs ==
    V31ApiKeys \cup V31Https \cup V31OAuth2s \cup V31OpenIdConnects \cup V31MutualTlss

\* One scheme that converts and one that does not, for the cells and maps
\* of schemes.
SchemeSamples ==
    {s \in V31ApiKeys \cup V31MutualTlss :
        /\ s.description = None
        /\ s.extensions # <<>>
        /\ s.variant = "ApiKey" => s.location.variant = "Header" /\ s.name = "s1"}

\* v3_1::ReferenceOr<X> with X a plain object or a security scheme.
V31CellInputs ==
    V31ReferenceOr(Refs, OpaqueValues("Response", "v3_1") \cup SchemeSamples, RestSamples)

\* IndexMap<String, v3_1::ReferenceOr<v3_1::PathItem>>
PathItemCells == V31ReferenceOr(Refs, OpaqueValues("PathItem", "v3_1"), {<<>>})
CallbackInputs == IndexMaps(Keys, PathItemCells, Cardinality(Keys))

\* v3_1::Server
ServerInputs ==
    {[rev |-> "v3_1", url |-> u, description |-> d, variables |-> v, extensions |-> e] :
        u \in Urls, d \in Descriptions,
        v \in IndexMaps(Keys, OpaqueValues("ServerVariable", "v3_1"), Cardinality(Keys)),
        e \in ExtensionSamples}

\* The cells of a map inside a larger object: one reference string, one object.
FirstRef == "#/components/x/A"
SmallCells(type) == V31ReferenceOr({FirstRef}, {Opaque(type, "v3_1", 1)}, {<<>>})

\* v3_1::MediaType
MediaTypeInputs ==
    {[rev |-> "v3_1", schema |-> sc, example |-> ex, examples |-> exs,
      encoding |-> en, extensions |-> e] :
        sc \in Options(OpaqueValues("Schema", "v3_1")),
        ex \in Options({"example"}),
        exs \in IndexMaps(Keys, SmallCells("Example"), Cardinality(Keys)),
        en \in IndexMaps(Keys, {Opaque("Encoding", "v3_1", 1)}, Cardinality(Keys)),
        e \in ExtensionSamples}

\* v3_1::Components: what each of the nine maps can hold.
GenericKinds ==
    {<<"responses", "Response">>, <<"parameters", "Parameter">>,
     <<"examples", "Example">>, <<"request_bodies", "RequestBody">>,
     <<"headers", "Header">>, <<"links", "Link">>}

CallbackSamples ==
    {<< <<"k1", c>> >> :
        c \in V31ReferenceOr({FirstRef}, {Opaque("PathItem", "v3_1", 1)}, {<<>>})}

\* An entry of the registry: <<map, key, value>>.
ComponentsEntries ==
    UNION {{g[1]} \X Keys \X SmallCells(g[2]) : g \in GenericKinds}
        \cup ({"security_schemes"} \X Keys
                \X V31ReferenceOr({FirstRef}, SchemeSamples, {<<>>}))
        \cup ({"schemas"} \X Keys \X {Opaque("Schema", "v3_1", 1)})
        \cup ({"callbacks"} \X Keys
                \X V31ReferenceOr({FirstRef}, CallbackSamples, {<<>>}))

\* The entries of one map, in their order.
EntriesOf(es, map) ==
    LET InMap(e) == e[1] = map
        mine == SelectSeq(es, InMap)
    IN  [i \in 1..Len(mine) |-> <<mine[i][2], mine[i][3]>>]

ComponentsOf(es, ext) ==
    [rev |-> "v3_1",
     security_schemes |-> EntriesOf(es, "security_schemes"),
     responses |-> EntriesOf(es, "responses"),
     parameters |-> EntriesOf(es, "parameters"),
     examples |-> EntriesOf(es, "examples"),
     request_bodies |-> EntriesOf(es, "request_bodies"),
     headers |-> EntriesOf(es, "headers"),
     schemas |-> EntriesOf(es, "schemas"),
     links |-> EntriesOf(es, "links"),
     callbacks |-> EntriesOf(es, "callbacks"),
     extensions |-> ext]

\* Keys are unique within each map.
DistinctEntries(es) ==
    \A i, j \in 1..Len(es) : es[i][1] = es[j][1] /\ es[i][2] = es[j][2] => i = j

ComponentsInputs ==
    {ComponentsOf(es, <<<<"x-internal", "true">>>>) :
        es \in {s \in UNION {[1..l -> ComponentsEntries] : l \in 0..MaxEntries} :
                    DistinctEntries(s)}}

Init ==
    /\ call = "none"
    /\ result = Pending
    /\ \/ \E c \in CellInputs : input = [kind |-> "ReferenceOr", val |-> c]
       \/ \E c \in V31CellInputs : input = [kind |-> "v3_1::ReferenceOr", val |-> c]
       \/ \E s \in SchemeInputs : input = [kind |-> "v3_1::SecurityScheme", val |-> s]
       \/ \E f \in FlowsInputs : input = [kind |-> "v3_1::OAuth2Flows", val |-> f]
       \/ \E a \in CallbackInputs : input = [kind |-> "v3_1::Callback", val |-> a]
       \/ \E s \in ServerInputs : input = [kind |-> "v3_1::Server", val |-> s]
       \/ \E m \in MediaTypeInputs : input = [kind |-> "v3_1::MediaType", val |-> m]
       \/ \E a \in ComponentsInputs : input = [kind |-> "v3_1::Components", val |-> a]

\* Actions: one call of an entry point on the argument; call records which,
\* result what came back.

\* reference.rs: ReferenceOr::into_item
IntoItem ==
    /\ call = "none"
    /\ input.kind = "ReferenceOr"
    /\ call' = "into_item"
    /\ result' = Ok(into_item(input.val))
    /\ UNCHANGED input

\* reference.rs: ReferenceOr::as_item
AsItem ==
    /\ call = "none"
    /\ input.kind = "ReferenceOr"
    /\ call' = "as_item"
    /\ result' = Ok(as_item(input.val))
    /\ UNCHANGED input

\* reference.rs: Serialize for ReferenceOr
SerializeCell ==
    /\ call = "none"
    /\ input.kind = "ReferenceOr"
    /\ call' = "serialize"
    /\ result' = Ok(Serialize(input.val))
    /\ UNCHANGED input

\* reference.rs: ReferenceOr::from_v3_1
FromV31 ==
    /\ call = "none"
    /\ input.kind = "v3_1::ReferenceOr"
    /\ call' = "from_v3_1"
    /\ result' = from_v3_1(input.val)
    /\ UNCHANGED input

\* security_scheme.rs: SecurityScheme::from
ConvertSecurityScheme ==
    /\ call = "none"
    /\ input.kind = "v3_1::SecurityScheme"
    /\ call' = "SecurityScheme::from"
    /\ result' = SecurityScheme_from(input.val)
    /\ UNCHANGED input

\* security_scheme.rs: OAuth2Flows::from
ConvertOAuth2Flows ==
    /\ call = "none"
    /\ input.kind = "v3_1::OAuth2Flows"
    /\ call' = "OAuth2Flows::from"
    /\ result' = Ok(OAuth2Flows_from(input.val))
    /\ UNCHANGED input

\* callback.rs: callback_from_v3_1
CallbackFromV31 ==
    /\ call = "none"
    /\ input.kind = "v3_1::Callback"
    /\ call' = "callback_from_v3_1"
    /\ result' = callback_from_v3_1(input.val)
    /\ UNCHANGED input

\* server.rs: Server::from
ConvertServer ==
    /\ call = "none"
    /\ input.kind = "v3_1::Server"
    /\ call' = "Server::from"
    /\ result' = Server_from(input.val)
    /\ UNCHANGED input

\* media_type.rs: MediaType::from
ConvertMediaType ==
    /\ call = "none"
    /\ input.kind = "v3_1::MediaType"
    /\ call' = "MediaType::from"
    /\ result' = MediaType_from(input.val)
    /\ UNCHANGED input

\* components.rs: Components::from
ConvertComponents ==
    /\ call = "none"
    /\ input.kind = "v3_1::Components"
    /\ call' = "Components::from"
    /\ result' = Components_from(input.val)
    /\ UNCHANGED input

Next ==
    \/ IntoItem
    \/ AsItem
    \/ SerializeCell
    \/ FromV31
    \/ ConvertSecurityScheme
    \/ ConvertOAuth2Flows
    \/ CallbackFromV31
    \/ ConvertServer
    \/ ConvertMediaType
    \/ ConvertComponents

Spec == Init /\ [][Next]_vars

-----------------------------------------------------------------------------
\* Properties

IsCell(x) == "tag" \in DOMAIN x
HoldsItem(c) == c.tag \in {"Item", "DereferencedReference"}

\* C1: into_item and as_item never fail; each returns Some(the contained
\* value) exactly when the cell is an Item or a DereferencedReference and
\* None when it is a Reference, also when the contained value is itself a
\* cell.
C1_IntoItemAsItem ==
    call \in {"into_item", "as_item"} =>
        /\ IsOk(result)
        /\ HoldsItem(input.val) => result[2] = Some(input.val.item)
        /\ input.val.tag = "Reference" => result[2] = None
        /\ (result[2] # None) <=> HoldsItem(input.val)

\* into_item on a resolved reference whose value is itself a Reference cell.
C1_Witness ==
    /\ call = "into_item"
    /\ input.val.tag = "DereferencedReference"
    /\ IsCell(input.val.item)
    /\ input.val.item.tag = "Reference"
    /\ result = Ok(Some(input.val.item))

\* The cell from_v3_1 must build from the cell c, given the outcome of
\* converting its contained value.
ExpectedCell(c, converted) ==
    IF c.tag = "Reference" THEN Ok(Reference(c.reference))
    ELSE IF IsOk(converted) THEN Ok(Item(converted[2]))
    ELSE converted

\* C2: from_v3_1 turns a Reference into a Reference with the same reference
\* string, an Item into an Item of the converted value and a
\* DereferencedReference into an Item of the converted value, its reference
\* string dropped; the callbacks map of Components follows the same rule.
C2_CellConversionRule ==
    /\ call = "from_v3_1" =>
            result = ExpectedCell(input.val,
                        IF HoldsItem(input.val) THEN Into(input.val.item) ELSE Pending)
    /\ call = "Components::from" /\ IsOk(result) =>
            /\ Len(result[2].callbacks) = Len(input.val.callbacks)
            /\ \A i \in 1..Len(input.val.callbacks) :
                    LET c == input.val.callbacks[i][2]
                    IN  Ok(result[2].callbacks[i][2]) =
                            ExpectedCell(c,
                                IF HoldsItem(c) THEN callback_from_v3_1(c.item)
                                ELSE Pending)

\* A resolved reference converted to a plain Item.
C2_Witness ==
    /\ call = "from_v3_1"
    /\ input.val.tag = "DereferencedReference"
    /\ IsOk(result)
    /\ result[2].tag = "Item"
    /\ "reference" \notin DOMAIN result[2]

\* A cell of a security-scheme map that holds a Mutual-TLS scheme.
HoldsMutualTls(c) == HoldsItem(c) /\ c.item.variant = "MutualTls"

\* C3: converting a Mutual-TLS scheme panics with the unsupported-feature
\* message, and a Components registry holding one as an Item or a
\* DereferencedReference of its security-scheme map converts to no
\* Components at all.
C3_MutualTlsAborts ==
    /\ call = "SecurityScheme::from" /\ input.val.variant = "MutualTls" =>
            result = Panic(MutualTlsMessage)
    /\ (/\ call = "Components::from"
        /\ \E i \in 1..Len(input.val.security_schemes) :
                HoldsMutualTls(input.val.security_schemes[i][2]))
       => result = Panic(MutualTlsMessage)

\* A registry whose second scheme is a resolved Mutual-TLS scheme.
C3_Witness ==
    /\ call = "Components::from"
    /\ Len(input.val.security_schemes) = 2
    /\ ~HoldsMutualTls(input.val.security_schemes[1][2])
    /\ input.val.security_schemes[2][2].tag = "DereferencedReference"
    /\ HoldsMutualTls(input.val.security_schemes[2][2])
    /\ IsPanic(result)

HasReferencedPathItem(a) == \E i \in 1..Len(a) : a[i][2].tag = "Reference"

\* C4: callback_from_v3_1 panics with the structural-invariant message exactly
\* when some entry holds its Path Item behind a Reference; otherwise every
\* entry, Item or DereferencedReference, becomes the plain Path Item under the
\* same key.
C4_CallbackReferenceAborts ==
    call = "callback_from_v3_1" =>
        IF HasReferencedPathItem(input.val)
        THEN result = Panic(PathItemRefMessage)
        ELSE /\ IsOk(result)
             /\ Len(result[2]) = Len(input.val)
             /\ \A i \in 1..Len(input.val) :
                    /\ result[2][i][1] = input.val[i][1]
                    /\ result[2][i][2] =
                            Opaque("PathItem", "v3_0", input.val[i][2].item.id)

\* A referenced Path Item after a resolved one: the call still returns nothing.
C4_Witness ==
    /\ call = "callback_from_v3_1"
    /\ Len(input.val) = 2
    /\ input.val[1][2].tag = "DereferencedReference"
    /\ input.val[2][2].tag = "Reference"
    /\ result = Panic(PathItemRefMessage)

\* The input holds no Mutual-TLS scheme and no Path Item behind a Reference
\* inside a Callback.
CleanCallback(a) == ~HasReferencedPathItem(a)
CleanItem(x) ==
    "type" \in DOMAIN x /\ x.type = "SecurityScheme" => x.variant # "MutualTls"
Clean(in) ==
    CASE in.kind = "v3_1::SecurityScheme" -> CleanItem(in.val)
      [] in.kind = "v3_1::ReferenceOr" -> HoldsItem(in.val) => CleanItem(in.val.item)
      [] in.kind = "v3_1::Callback" -> CleanCallback(in.val)
      [] in.kind = "v3_1::Components" ->
            /\ \A i \in 1..Len(in.val.security_schemes) :
                    ~HoldsMutualTls(in.val.security_schemes[i][2])
            /\ \A i \in 1..Len(in.val.callbacks) :
                    HoldsItem(in.val.callbacks[i][2]) =>
                        CleanCallback(in.val.callbacks[i][2].item)
      [] OTHER -> TRUE

Conversions ==
    {"from_v3_1", "SecurityScheme::from", "OAuth2Flows::from", "callback_from_v3_1",
     "Server::from", "MediaType::from", "Components::from"}

\* C5: a conversion whose input holds no Mutual-TLS scheme and no referenced
\* Path Item inside a Callback returns a value; a Reference cell in a
\* Components map, a referenced Callback included, is no error.
C5_CleanInputConverts ==
    call \in Conversions /\ Clean(input) => IsOk(result)

\* A registry of a referenced scheme and a referenced callback converts.
C5_Witness ==
    /\ call = "Components::from"
    /\ Len(input.val.security_schemes) = 1
    /\ input.val.security_schemes[1][2].tag = "Reference"
    /\ Len(input.val.callbacks) = 1
    /\ input.val.callbacks[1][2].tag = "Reference"
    /\ IsOk(result)

ComponentsMaps ==
    {"security_schemes", "responses", "parameters", "examples", "request_bodies",
     "headers", "schemas", "links", "callbacks"}

\* C6: a Components conversion that returns keeps, in each of the nine maps,
\* the keys of the same map of the input in the same order; an empty map
\* stays empty.
C6_KeysAndOrderKept ==
    call = "Components::from" /\ IsOk(result) =>
        \A f \in ComponentsMaps :
            /\ KeysOf(result[2][f]) = KeysOf(input.val[f])
            /\ input.val[f] = <<>> => result[2][f] = <<>>

\* Two headers inserted as k2, k1 and every other map empty.
C6_Witness ==
    /\ call = "Components::from"
    /\ IsOk(result)
    /\ KeysOf(input.val.headers) = <<"k2", "k1">>
    /\ KeysOf(result[2].headers) = <<"k2", "k1">>
    /\ \A f \in ComponentsMaps \ {"headers"} : result[2][f] = <<>>

\* The fields of a flow of each kind, besides the kind itself.
FlowFields(variant) ==
    CASE variant = "Implicit" -> {"authorization_url", "refresh_url", "scopes"}
      [] variant = "Password" -> {"refresh_url", "token_url", "scopes"}
      [] variant = "ClientCredentials" -> {"refresh_url", "token_url", "scopes"}
      [] variant = "AuthorizationCode" ->
            {"authorization_url", "token_url", "refresh_url", "scopes"}

\* The older-revision flow o is the newer-revision flow i, kind and fields.
SameFlow(o, i) ==
    /\ o.variant = i.variant
    /\ DOMAIN o = FlowFields(i.variant) \cup {"rev", "variant"}
    /\ \A f \in FlowFields(i.variant) : o[f] = i[f]

\* The older-revision flow set o is the newer-revision flow set i, slot by slot.
SameFlows(o, i) ==
    \A slot \in Slots :
        /\ (o[slot] = None) <=> (i[slot] = None)
        /\ i[slot] # None => SameFlow(o[slot][1], i[slot][1])

Occupied(flows) == {slot \in Slots : flows[slot] # None}

\* C7: a converted OAuth2 flow set has a slot populated exactly when the
\* input has the same slot populated, and the flow of a populated slot keeps
\* its kind and the fields of that kind.
C7_FlowSlotsKept ==
    call = "OAuth2Flows::from" =>
        /\ IsOk(result)
        /\ SameFlows(result[2], input.val)
        /\ Occupied(result[2]) = Occupied(input.val)

\* Only the password slot occupied, by a flow with a refresh URL.
C7_Witness ==
    /\ call = "OAuth2Flows::from"
    /\ Occupied(input.val) = {"password"}
    /\ input.val.password[1].refresh_url # None
    /\ Occupied(result[2]) = {"password"}

\* C8: a converted Server has no variables (None) when the input's variable
\* map is empty and a present map of the same keys in the same order when it
\* is not, never a present empty map; url, description and extensions are the
\* input's.
C8_ServerVariables ==
    call = "Server::from" =>
        /\ IsOk(result)
        /\ input.val.variables = <<>> => result[2].variables = None
        /\ input.val.variables # <<>> =>
                /\ result[2].variables # None
                /\ KeysOf(result[2].variables[1]) = KeysOf(input.val.variables)
        /\ result[2].variables # Some(<<>>)
        /\ result[2].url = input.val.url
        /\ result[2].description = input.val.description
        /\ result[2].extensions = input.val.extensions

\* A Server without variables, converted.
C8_Witness ==
    /\ call = "Server::from"
    /\ input.val.variables = <<>>
    /\ input.val.extensions # <<>>
    /\ IsOk(result)
    /\ result[2].variables = None

\* The older-revision variant of each newer-revision one, and its fields
\* besides the flows and the location.
SchemeVariant(v) ==
    CASE v = "ApiKey" -> "APIKey"
      [] v = "Http" -> "HTTP"
      [] v = "OAuth2" -> "OAuth2"
      [] v = "OpenIdConnect" -> "OpenIDConnect"
SchemeFields(v) ==
    CASE v = "ApiKey" -> {"name", "description", "extensions"}
      [] v = "Http" -> {"scheme", "bearer_format", "description", "extensions"}
      [] v = "OAuth2" -> {"description", "extensions"}
      [] v = "OpenIdConnect" -> {"open_id_connect_url", "description", "extensions"}

\* C9: an API-Key, HTTP, OAuth2 or OpenID-Connect scheme converts to the
\* scheme of the same kind with every field the input's: the location and the
\* flows converted, the others and the extensions copied.
C9_SchemeFieldForField ==
    call = "SecurityScheme::from" /\ input.val.variant # "MutualTls" =>
        /\ IsOk(result)
        /\ result[2].variant = SchemeVariant(input.val.variant)
        /\ \A f \in SchemeFields(input.val.variant) : result[2][f] = input.val[f]
        /\ input.val.variant = "ApiKey" =>
                result[2].location = APIKeyLocation(input.val.location.variant)
        /\ input.val.variant = "OAuth2" => SameFlows(result[2].flows, input.val.flows)
        /\ DOMAIN result[2] = DOMAIN input.val

\* An API key sent in a cookie.
C9_Witness ==
    /\ call = "SecurityScheme::from"
    /\ input.val.variant = "ApiKey"
    /\ input.val.location.variant = "Cookie"
    /\ input.val.extensions # <<>>
    /\ IsOk(result)
    /\ result[2].variant = "APIKey"

\* C10: a Reference serializes as the one-key object {"$ref": reference}, an
\* Item as its contained object, and a DereferencedReference has no external
\* form of its own: it serializes as a Reference or as an Item does.
C10_ExternalForm ==
    call = "serialize" =>
        LET c == input.val
            plain(x) == IF IsCell(x) THEN Serialize(x) ELSE SerializeOpaque(x)
        IN  /\ c.tag = "Reference" =>
                    result[2] = JObject(<< <<"$ref", JString(c.reference)>> >>)
            /\ c.tag = "Item" => result[2] = plain(c.item)
            /\ c.tag = "DereferencedReference" =>
                    \/ result[2] = JObject(<< <<"$ref", JString(c.reference)>> >>)
                    \/ result[2] = plain(c.item)

\* The cells of a converted map are References and Items only.
NoDereferenced(m) == \A i \in 1..Len(m) : m[i][2].tag \in {"Reference", "Item"}
AllItems(m) == \A i \in 1..Len(m) : m[i][2].tag = "Item"

\* C11: no cell a conversion returns is a DereferencedReference: the cell of
\* from_v3_1, the cells of the nine maps of a converted Components and the
\* examples of a converted MediaType are References or Items; every entry of
\* the converted schemas map and a present MediaType schema is an Item.
C11_NoDereferencedOutput ==
    /\ call = "from_v3_1" /\ IsOk(result) => result[2].tag \in {"Reference", "Item"}
    /\ call = "Components::from" /\ IsOk(result) =>
            /\ \A f \in ComponentsMaps : NoDereferenced(result[2][f])
            /\ Len(result[2].schemas) = Len(input.val.schemas)
            /\ AllItems(result[2].schemas)
    /\ call = "MediaType::from" /\ IsOk(result) =>
            /\ NoDereferenced(result[2].examples)
            /\ (result[2].schema = None) <=> (input.val.schema = None)
            /\ result[2].schema # None => result[2].schema[1].tag = "Item"

\* A registry of one schema and one resolved header reference, converted.
C11_Witness ==
    /\ call = "Components::from"
    /\ Len(input.val.schemas) = 1
    /\ Len(input.val.headers) = 1
    /\ input.val.headers[1][2].tag = "DereferencedReference"
    /\ IsOk(result)
    /\ result[2].headers[1][2].tag = "Item"
    /\ result[2].schemas[1][2] = Item(Opaque("Schema", "v3_0", 1))

====
